---- MODULE Spec2Model ----
(***************************************************************************)
(* A model of the Telegram Multi node: the validators, the text sanitizer, *)
(* the request builder (telegramApiRequest), the seven operation functions *)
(* of GenericFunctions and the per-item loop of TelegramMulti.execute.     *)
(*                                                                         *)
(* JavaScript values are tagged records ([t |-> "string", s |-> ...],      *)
(* [t |-> "number", n |-> .., d |-> ..], ...).  A string is a sequence of  *)
(* runs [seg |-> <<characters>>, n |-> k] standing for seg repeated k      *)
(* times, so that texts around the 4096 and 1024 character limits are      *)
(* values the model checker can hold; every string operation is defined on *)
(* the characters the runs stand for.  A number is the fraction n/d, with  *)
(* d = 0 standing for NaN.  An object is a function from keys to values.   *)
(***************************************************************************)
EXTENDS Integers, Sequences, FiniteSets, TLC

VARIABLES
    nItems,          \* items.length of this.getInputData()
    continueOnFail,  \* what this.continueOnFail() answers for this node
    i,               \* the loop variable of execute
    pc,              \* "loop" | "dispatch" | "awaiting" | "done" | "thrown"
    returnData,      \* the array execute returns
    thrown,          \* the error that left execute, or Undefined
    call,            \* what the loop body read and called for the latest item
    request,         \* the options handed to this.helpers.request, in flight
    transportLog,    \* the item index of every transport call, in order
    lastReply,       \* what this.helpers.request did for the latest call
    trace,           \* per item: how the pass of the loop body ended
    sanitizer        \* a call of sanitizeText on its own: argument, results

vars == <<nItems, continueOnFail, i, pc, returnData, thrown, call, request,
          transportLog, lastReply, trace, sanitizer>>

(***************************************************************************)
(* Bounds of the model.                                                    *)
(***************************************************************************)
MaxItems == 3
\* the longest string of single characters handed to sanitizeText on its own
MaxChars == 3

(***************************************************************************)
(* Program constants.                                                      *)
(***************************************************************************)
BotIdMinDigits == 8
BotIdMaxDigits == 10
SecretMinChars == 30
SecretMaxChars == 45
UsernameTailMin == 4
UsernameTailMax == 31
MaxTextLength == 4096
MaxCaptionLength == 1024
RequestTimeoutMs == 30000

(***************************************************************************)
(* Characters.                                                             *)
(***************************************************************************)
Digits == {"0", "1", "2", "3", "4", "5", "6", "7", "8", "9"}

LowerCase ==
    {"a", "b", "c", "d", "e", "f", "g", "h", "i", "j", "k", "l", "m",
     "n", "o", "p", "q", "r", "s", "t", "u", "v", "w", "x", "y", "z"}

UpperCase ==
    {"A", "B", "C", "D", "E", "F", "G", "H", "I", "J", "K", "L", "M",
     "N", "O", "P", "Q", "R", "S", "T", "U", "V", "W", "X", "Y", "Z"}

Letters == LowerCase \cup UpperCase

\* [A-Za-z0-9_] of the username pattern
WordChars == Letters \cup Digits \cup {"_"}

\* [A-Za-z0-9_-] of the token pattern
SecretChars == WordChars \cup {"-"}

\* the characters String.prototype.trim removes, as far as the inputs use them
WhiteSpace == {" ", "\n", "\t"}

(***************************************************************************)
(* Strings as sequences of runs.                                           *)
(***************************************************************************)
EmptyString == <<>>

\* the string whose characters are the tuple chars
Lit(chars) ==
    IF chars = <<>> THEN <<>> ELSE <<[seg |-> chars, n |-> 1]>>

\* the character c repeated k times
Rep(c, k) ==
    IF k = 0 THEN <<>> ELSE <<[seg |-> <<c>>, n |-> k]>>

RECURSIVE StrLen(_)
\* String.prototype.length
StrLen(s) ==
    IF s = <<>> THEN 0
    ELSE Len(Head(s).seg) * Head(s).n + StrLen(Tail(s))

\* the tuple seg repeated k times
Copies(seg, k) ==
    [j \in 1..(Len(seg) * k) |-> seg[((j - 1) % Len(seg)) + 1]]

RECURSIVE Flatten(_)
\* the characters of s, one by one
Flatten(s) ==
    IF s = <<>> THEN <<>>
    ELSE Copies(Head(s).seg, Head(s).n) \o Flatten(Tail(s))

RECURSIVE ReplaceInSeg(_, _, _)
\* every occurrence of the character c in the tuple seg replaced by ent
ReplaceInSeg(seg, c, ent) ==
    IF seg = <<>> THEN <<>>
    ELSE (IF Head(seg) = c THEN ent ELSE <<Head(seg)>>)
             \o ReplaceInSeg(Tail(seg), c, ent)

\* String.prototype.replace(/c/g, ent)
ReplaceAll(s, c, ent) ==
    [k \in 1..Len(s) |-> [seg |-> ReplaceInSeg(s[k].seg, c, ent), n |-> s[k].n]]

RECURSIVE DropLeadingSpace(_)
DropLeadingSpace(seg) ==
    IF seg = <<>> THEN <<>>
    ELSE IF Head(seg) \in WhiteSpace THEN DropLeadingSpace(Tail(seg))
    ELSE seg

RECURSIVE DropTrailingSpace(_)
DropTrailingSpace(seg) ==
    IF seg = <<>> THEN <<>>
    ELSE IF seg[Len(seg)] \in WhiteSpace
         THEN DropTrailingSpace(SubSeq(seg, 1, Len(seg) - 1))
    ELSE seg

RECURSIVE TrimStart(_)
TrimStart(s) ==
    IF s = <<>> THEN <<>>
    ELSE LET r == Head(s)
             cut == DropLeadingSpace(r.seg)
         IN  IF cut = <<>> THEN TrimStart(Tail(s))
             ELSE IF cut = r.seg THEN s
             ELSE <<[seg |-> cut, n |-> 1]>>
                      \o (IF r.n > 1 THEN <<[seg |-> r.seg, n |-> r.n - 1]>>
                          ELSE <<>>)
                      \o Tail(s)

RECURSIVE TrimEnd(_)
TrimEnd(s) ==
    IF s = <<>> THEN <<>>
    ELSE LET r == s[Len(s)]
             front == SubSeq(s, 1, Len(s) - 1)
             cut == DropTrailingSpace(r.seg)
         IN  IF cut = <<>> THEN TrimEnd(front)
             ELSE IF cut = r.seg THEN s
             ELSE front
                      \o (IF r.n > 1 THEN <<[seg |-> r.seg, n |-> r.n - 1]>>
                          ELSE <<>>)
                      \o <<[seg |-> cut, n |-> 1]>>

\* String.prototype.trim
Trim(s) == TrimEnd(TrimStart(s))

\* String.prototype.startsWith(c), c one character
StartsWith(s, c) ==
    s # <<>> /\ Head(s).seg[1] = c

(***************************************************************************)
(* JavaScript values.                                                      *)
(***************************************************************************)
Undefined == [t |-> "undefined"]
Null == [t |-> "null"]
Bool(b) == [t |-> "boolean", b |-> b]
Str(s) == [t |-> "string", s |-> s]
Num(k) == [t |-> "number", n |-> k, d |-> 1]
Frac(k, m) == [t |-> "number", n |-> k, d |-> m]
NaN == [t |-> "number", n |-> 0, d |-> 0]
Obj(o) == [t |-> "object", o |-> o]

\* typeof v
TypeOf(v) ==
    IF v.t = "null" THEN "object" ELSE v.t

\* whether !v is false
Truthy(v) ==
    CASE v.t = "undefined" -> FALSE
      [] v.t = "null" -> FALSE
      [] v.t = "boolean" -> v.b
      [] v.t = "string" -> StrLen(v.s) > 0
      [] v.t = "number" -> v.d # 0 /\ v.n # 0
      [] OTHER -> TRUE

\* v.toString() of a value that has one and is no number
JsToString(v) ==
    CASE v.t = "string" -> v.s
      [] v.t = "boolean" ->
           IF v.b THEN Lit(<<"t", "r", "u", "e">>)
           ELSE Lit(<<"f", "a", "l", "s", "e">>)

\* {...a, ...b}: the keys of both, b's value where both have the key
Spread(a, b) ==
    [k \in DOMAIN a \cup DOMAIN b |-> IF k \in DOMAIN b THEN b[k] ELSE a[k]]

\* obj[key], undefined when the object has no such key
Get(obj, key) ==
    IF key \in DOMAIN obj THEN obj[key] ELSE Undefined

EmptyObject == <<>>

(***************************************************************************)
(* Validators and the sanitizer.                                           *)
(***************************************************************************)
\* /^[0-9]{8,10}:[A-Za-z0-9_-]{30,45}$/.test(chars)
TokenRegexTest(chars) ==
    \E ds \in BotIdMinDigits..BotIdMaxDigits :
        /\ Len(chars) >= ds + 1 + SecretMinChars
        /\ Len(chars) <= ds + 1 + SecretMaxChars
        /\ \A k \in 1..ds : chars[k] \in Digits
        /\ chars[ds + 1] = ":"
        /\ \A k \in (ds + 2)..Len(chars) : chars[k] \in SecretChars

ValidateBotToken(token) ==
    IF ~Truthy(token) \/ TypeOf(token) # "string" THEN FALSE
    ELSE TokenRegexTest(Flatten(token.s))

\* /^-?\d+$/.test(chars)
IntegerRegexTest(chars) ==
    LET ds == IF chars # <<>> /\ Head(chars) = "-" THEN Tail(chars) ELSE chars
    IN  /\ Len(ds) >= 1
        /\ \A k \in 1..Len(ds) : ds[k] \in Digits

\* /^@[a-zA-Z][a-zA-Z0-9_]{4,31}$/.test(chars)
UsernameRegexTest(chars) ==
    /\ Len(chars) >= 2 + UsernameTailMin
    /\ Len(chars) <= 2 + UsernameTailMax
    /\ chars[1] = "@"
    /\ chars[2] \in Letters
    /\ \A k \in 3..Len(chars) : chars[k] \in WordChars

ValidateChatId(chatId) ==
    IF ~Truthy(chatId) THEN FALSE
    ELSE IF TypeOf(chatId) = "number"
            \/ IntegerRegexTest(Flatten(JsToString(chatId)))
         THEN TRUE
    ELSE IF TypeOf(chatId) = "string" /\ StartsWith(chatId.s, "@")
         THEN UsernameRegexTest(Flatten(chatId.s))
    ELSE FALSE

AmpEntity == <<"&", "a", "m", "p", ";">>
LtEntity == <<"&", "l", "t", ";">>
GtEntity == <<"&", "g", "t", ";">>
QuotEntity == <<"&", "q", "u", "o", "t", ";">>
AposEntity == <<"&", "#", "x", "2", "7", ";">>

\* sanitizeText without the escaping of '&'
SanitizeTextKeepingAmp(text) ==
    IF ~Truthy(text) \/ TypeOf(text) # "string" THEN EmptyString
    ELSE Trim(ReplaceAll(ReplaceAll(ReplaceAll(ReplaceAll(
             text.s, "<", LtEntity), ">", GtEntity),
             "\"", QuotEntity), "'", AposEntity))

\* sanitizeText without the final trim
SanitizeTextUntrimmed(text) ==
    IF ~Truthy(text) \/ TypeOf(text) # "string" THEN EmptyString
    ELSE ReplaceAll(ReplaceAll(ReplaceAll(ReplaceAll(ReplaceAll(
             text.s, "&", AmpEntity), "<", LtEntity), ">", GtEntity),
             "\"", QuotEntity), "'", AposEntity)

\* the string sanitizeText returns
SanitizeText(text) ==
    IF ~Truthy(text) \/ TypeOf(text) # "string" THEN EmptyString
    ELSE Trim(ReplaceAll(ReplaceAll(ReplaceAll(ReplaceAll(ReplaceAll(
             text.s, "&", AmpEntity), "<", LtEntity), ">", GtEntity),
             "\"", QuotEntity), "'", AposEntity))

(***************************************************************************)
(* Errors, and how a function ends: it throws, it returns, or it is        *)
(* suspended in this.helpers.request.                                      *)
(***************************************************************************)
NoText == [text |-> "", arg |-> Undefined]

\* new NodeOperationError(node, text + arg); kind is the spec's name for it
OperationError(kind, text, arg) ==
    [class |-> "NodeOperationError", kind |-> kind,
     message |-> [text |-> text, arg |-> arg], description |-> NoText,
     code |-> "none"]

Throw(e) == [k |-> "throw", error |-> e]
Return(v) == [k |-> "return", value |-> v]
Await(options) == [k |-> "await", options |-> options]

(***************************************************************************)
(* telegramApiRequest, in two halves: up to the await of                   *)
(* this.helpers.request, and from the transport's reply on.                *)
(***************************************************************************)
TelegramApiRequestBegin(method, endpoint, body, botToken) ==
    IF ~Truthy(botToken)
    THEN Throw(OperationError("MissingToken", "Bot token is required",
                              Undefined))
    ELSE IF ~ValidateBotToken(botToken)
    THEN Throw(OperationError("InvalidTokenFormat",
                   "Invalid bot token format. Expected format: 123456789:ABCdefGHIjklMNOpqrSTUvwxyz",
                   Undefined))
    ELSE Await([method |-> method,
                headers |-> [ContentType |-> "application/json"],
                body |-> body,
                qs |-> EmptyObject,
                url |-> [base |-> "https://api.telegram.org/bot",
                         token |-> botToken, endpoint |-> endpoint],
                json |-> TRUE,
                timeout |-> RequestTimeoutMs])

UnknownApiError ==
    Str(Lit(<<"U", "n", "k", "n", "o", "w", "n", " ", "T", "e", "l", "e",
              "g", "r", "a", "m", " ", "A", "P", "I", " ", "e", "r", "r",
              "o", "r">>))

\* new NodeApiError(node, response, {message, description})
ApiError(response) ==
    LET errorMessage ==
            IF Truthy(Get(response, "description"))
            THEN Get(response, "description") ELSE UnknownApiError
    IN  [class |-> "NodeApiError", kind |-> "ApiError",
         message |-> [text |-> "Telegram API Error: ", arg |-> errorMessage],
         description |-> [text |-> "Error Code: ",
                          arg |-> Get(response, "error_code")],
         code |-> "none"]

\* reading response.ok of a response that is null or undefined
OkOfNothing ==
    [class |-> "TypeError", kind |-> "raw",
     message |-> [text |-> "Cannot read properties of undefined (reading 'ok')",
                  arg |-> Undefined],
     description |-> NoText, code |-> "none"]

\* the catch block without the re-throw of the node's own errors
TranslateErrorRewrapping(error) ==
    IF error.code = "ECONNREFUSED"
    THEN Throw(OperationError("ConnectionRefused",
                   "Could not connect to Telegram API. Please check your internet connection.",
                   Undefined))
    ELSE IF error.code = "ETIMEDOUT"
    THEN Throw(OperationError("Timeout",
                   "Request to Telegram API timed out. Please try again.",
                   Undefined))
    ELSE Throw([class |-> "NodeOperationError", kind |-> "RequestFailed",
                message |-> [text |-> "Telegram API request failed: ",
                             arg |-> IF error.message.text # ""
                                     THEN error.message ELSE error],
                description |-> NoText, code |-> "none"])

\* the catch block of telegramApiRequest
TranslateError(error) ==
    IF error.code = "ECONNREFUSED"
    THEN Throw(OperationError("ConnectionRefused",
                   "Could not connect to Telegram API. Please check your internet connection.",
                   Undefined))
    ELSE IF error.code = "ETIMEDOUT"
    THEN Throw(OperationError("Timeout",
                   "Request to Telegram API timed out. Please try again.",
                   Undefined))
    ELSE IF error.class \in {"NodeApiError", "NodeOperationError"}
    THEN Throw(error)
    ELSE Throw([class |-> "NodeOperationError", kind |-> "RequestFailed",
                message |-> [text |-> "Telegram API request failed: ",
                             arg |-> IF error.message.text # ""
                                     THEN error.message ELSE error],
                description |-> NoText, code |-> "none"])

\* telegramApiRequest checking the token only once Telegram has refused it
TelegramApiRequestEndLateTokenCheck(reply) ==
    IF reply.k = "raise" THEN TranslateError(reply.error)
    ELSE IF reply.value.t # "object" THEN TranslateError(OkOfNothing)
    ELSE IF ~Truthy(Get(reply.value.o, "ok"))
    THEN Throw(OperationError("InvalidTokenFormat",
                              "Invalid bot token format", Undefined))
    ELSE Return(reply.value)

\* telegramApiRequest without the check of response.ok
TelegramApiRequestEndIgnoringOk(reply) ==
    IF reply.k = "raise" THEN TranslateError(reply.error)
    ELSE IF reply.value.t # "object" THEN TranslateError(OkOfNothing)
    ELSE Return(reply.value)

\* reply is what this.helpers.request did: [k |-> "response", value |-> r]
\* or [k |-> "raise", error |-> e]
TelegramApiRequestEnd(reply) ==
    IF reply.k = "raise" THEN TranslateError(reply.error)
    ELSE IF reply.value.t # "object" THEN TranslateError(OkOfNothing)
    ELSE IF ~Truthy(Get(reply.value.o, "ok"))
    THEN TranslateError(ApiError(reply.value.o))
    ELSE Return(reply.value)

(***************************************************************************)
(* The operation functions, each up to its call of telegramApiRequest;     *)
(* each returns what telegramApiRequest returns.                           *)
(***************************************************************************)
InvalidChatIdError(chatId) ==
    OperationError("InvalidChatId", "Invalid chat ID: ", chatId)

\* sendMessage applying the length limit to the text as given
SendMessageLimitingRawText(chatId, text, botToken, additionalFields) ==
    IF ~ValidateChatId(chatId) THEN Throw(InvalidChatIdError(chatId))
    ELSE LET sanitizedText == SanitizeText(text)
         IN  IF StrLen(sanitizedText) = 0
             THEN Throw(OperationError("EmptyText",
                            "Message text cannot be empty", Undefined))
             ELSE IF StrLen(text.s) > MaxTextLength
             THEN Throw(OperationError("TextTooLong",
                            "Message text is too long",
                            Num(StrLen(text.s))))
             ELSE TelegramApiRequestBegin("POST", "/sendMessage",
                      Spread([chat_id |-> chatId, text |-> Str(sanitizedText)],
                             additionalFields),
                      botToken)

SendMessage(chatId, text, botToken, additionalFields) ==
    IF ~ValidateChatId(chatId) THEN Throw(InvalidChatIdError(chatId))
    ELSE LET sanitizedText == SanitizeText(text)
         IN  IF StrLen(sanitizedText) = 0
             THEN Throw(OperationError("EmptyText",
                            "Message text cannot be empty", Undefined))
             ELSE IF StrLen(sanitizedText) > MaxTextLength
             THEN Throw(OperationError("TextTooLong",
                            "Message text is too long",
                            Num(StrLen(sanitizedText))))
             ELSE TelegramApiRequestBegin("POST", "/sendMessage",
                      Spread([chat_id |-> chatId, text |-> Str(sanitizedText)],
                             additionalFields),
                      botToken)

\* the caption step applying the length limit to the caption as given
WithCaptionLimitingRawCaption(body, endpoint, tooLong, botToken) ==
    IF Truthy(Get(body, "caption")) /\ TypeOf(Get(body, "caption")) = "string"
    THEN IF StrLen(body.caption.s) > MaxCaptionLength
         THEN Throw(OperationError("CaptionTooLong", tooLong,
                                   Num(StrLen(body.caption.s))))
         ELSE TelegramApiRequestBegin("POST", endpoint,
                  [body EXCEPT !.caption = Str(SanitizeText(body.caption))],
                  botToken)
    ELSE TelegramApiRequestBegin("POST", endpoint, body, botToken)

\* the caption step shared by sendPhoto and sendDocument
WithCaption(body, endpoint, tooLong, botToken) ==
    IF Truthy(Get(body, "caption")) /\ TypeOf(Get(body, "caption")) = "string"
    THEN LET caption == SanitizeText(body.caption)
         IN  IF StrLen(caption) > MaxCaptionLength
             THEN Throw(OperationError("CaptionTooLong", tooLong,
                                       Num(StrLen(caption))))
             ELSE TelegramApiRequestBegin("POST", endpoint,
                      [body EXCEPT !.caption = Str(caption)], botToken)
    ELSE TelegramApiRequestBegin("POST", endpoint, body, botToken)

SendPhoto(chatId, photo, botToken, additionalFields) ==
    IF ~ValidateChatId(chatId) THEN Throw(InvalidChatIdError(chatId))
    ELSE IF ~Truthy(photo)
    THEN Throw(OperationError("MissingMedia",
                   "Photo URL or file_id is required", Undefined))
    ELSE WithCaption(Spread([chat_id |-> chatId, photo |-> photo],
                            additionalFields),
                     "/sendPhoto", "Photo caption is too long", botToken)

SendDocument(chatId, document, botToken, additionalFields) ==
    IF ~ValidateChatId(chatId) THEN Throw(InvalidChatIdError(chatId))
    ELSE IF ~Truthy(document)
    THEN Throw(OperationError("MissingMedia",
                   "Document URL or file_id is required", Undefined))
    ELSE WithCaption(Spread([chat_id |-> chatId, document |-> document],
                            additionalFields),
                     "/sendDocument", "Document caption is too long", botToken)

GetChat(chatId, botToken) ==
    IF ~ValidateChatId(chatId) THEN Throw(InvalidChatIdError(chatId))
    ELSE TelegramApiRequestBegin("POST", "/getChat", [chat_id |-> chatId],
                                 botToken)

GetChatAdministrators(chatId, botToken) ==
    IF ~ValidateChatId(chatId) THEN Throw(InvalidChatIdError(chatId))
    ELSE TelegramApiRequestBegin("POST", "/getChatAdministrators",
                                 [chat_id |-> chatId], botToken)

InvalidMessageIdError ==
    OperationError("InvalidMessageId", "Valid message ID is required",
                   Undefined)

\* editMessage testing only the type of the message id
EditMessageTypeCheckOnly(chatId, messageId, text, botToken, additionalFields) ==
    IF ~ValidateChatId(chatId) THEN Throw(InvalidChatIdError(chatId))
    ELSE IF TypeOf(messageId) # "number"
    THEN Throw(InvalidMessageIdError)
    ELSE LET sanitizedText == SanitizeText(text)
         IN  IF StrLen(sanitizedText) = 0
             THEN Throw(OperationError("EmptyText",
                            "Message text cannot be empty", Undefined))
             ELSE IF StrLen(sanitizedText) > MaxTextLength
             THEN Throw(OperationError("TextTooLong",
                            "Message text is too long",
                            Num(StrLen(sanitizedText))))
             ELSE TelegramApiRequestBegin("POST", "/editMessageText",
                      Spread([chat_id |-> chatId, message_id |-> messageId,
                              text |-> Str(sanitizedText)],
                             additionalFields),
                      botToken)

EditMessage(chatId, messageId, text, botToken, additionalFields) ==
    IF ~ValidateChatId(chatId) THEN Throw(InvalidChatIdError(chatId))
    ELSE IF ~Truthy(messageId) \/ TypeOf(messageId) # "number"
    THEN Throw(InvalidMessageIdError)
    ELSE LET sanitizedText == SanitizeText(text)
         IN  IF StrLen(sanitizedText) = 0
             THEN Throw(OperationError("EmptyText",
                            "Message text cannot be empty", Undefined))
             ELSE IF StrLen(sanitizedText) > MaxTextLength
             THEN Throw(OperationError("TextTooLong",
                            "Message text is too long",
                            Num(StrLen(sanitizedText))))
             ELSE TelegramApiRequestBegin("POST", "/editMessageText",
                      Spread([chat_id |-> chatId, message_id |-> messageId,
                              text |-> Str(sanitizedText)],
                             additionalFields),
                      botToken)

\* deleteMessage with its two checks in the other order
DeleteMessageCheckingMessageIdFirst(chatId, messageId, botToken) ==
    IF ~Truthy(messageId) \/ TypeOf(messageId) # "number"
    THEN Throw(InvalidMessageIdError)
    ELSE IF ~ValidateChatId(chatId) THEN Throw(InvalidChatIdError(chatId))
    ELSE TelegramApiRequestBegin("POST", "/deleteMessage",
                                 [chat_id |-> chatId, message_id |-> messageId],
                                 botToken)

DeleteMessage(chatId, messageId, botToken) ==
    IF ~ValidateChatId(chatId) THEN Throw(InvalidChatIdError(chatId))
    ELSE IF ~Truthy(messageId) \/ TypeOf(messageId) # "number"
    THEN Throw(InvalidMessageIdError)
    ELSE TelegramApiRequestBegin("POST", "/deleteMessage",
                                 [chat_id |-> chatId, message_id |-> messageId],
                                 botToken)

(***************************************************************************)
(* TelegramMulti.execute: the loop body for item i.                        *)
(***************************************************************************)
Range(f) == {f[k] : k \in DOMAIN f}

KnownAuthMethods == {"credentials", "environment", "direct"}

\* the switch on authMethod; source is what the method's token source holds
\* (credentials.accessToken, the envToken or the directToken parameter)
ResolveToken(authMethod, source) ==
    CASE authMethod = "credentials" -> Return(source)
      [] authMethod = "environment" -> Return(source)
      [] authMethod = "direct" -> Return(source)
      [] OTHER ->
           Throw(OperationError("UnknownAuthMethod",
                     "Invalid authentication method: ",
                     [t |-> "name", name |-> authMethod]))

\* what the switch reads from the host
TokenReads(authMethod) ==
    CASE authMethod = "credentials" -> <<"authMethod", "getCredentials">>
      [] authMethod = "environment" -> <<"authMethod", "envToken">>
      [] authMethod = "direct" -> <<"authMethod", "directToken">>
      [] OTHER -> <<"authMethod">>

\* the token checks of execute without the format check
CheckBotTokenPresenceOnly(botToken) ==
    IF ~Truthy(botToken)
    THEN Throw(OperationError("MissingToken", "Bot token is required",
                              Undefined))
    ELSE Return(botToken)

\* the token checks of execute
CheckBotToken(botToken) ==
    IF ~Truthy(botToken)
    THEN Throw(OperationError("MissingToken", "Bot token is required",
                              Undefined))
    ELSE IF ~ValidateBotToken(botToken)
    THEN Throw(OperationError("InvalidTokenFormat",
                              "Invalid bot token format", Undefined))
    ELSE Return(botToken)

\* the if/else chain on resource and operation: the function it calls
Route(resource, operation) ==
    IF resource = "message"
    THEN IF operation = "send" THEN "sendMessage"
         ELSE IF operation = "edit" THEN "editMessage"
         ELSE IF operation = "delete" THEN "deleteMessage"
         ELSE "none"
    ELSE IF resource = "photo"
    THEN IF operation = "send" THEN "sendPhoto" ELSE "none"
    ELSE IF resource = "document"
    THEN IF operation = "send" THEN "sendDocument" ELSE "none"
    ELSE IF resource = "chat"
    THEN IF operation = "get" THEN "getChat"
         ELSE IF operation = "getAdministrators" THEN "getChatAdministrators"
         ELSE "none"
    ELSE "none"

\* the parameters the chain reads before the call
RouteReads(fn) ==
    CASE fn = "sendMessage" -> <<"text">>
      [] fn = "editMessage" -> <<"text", "messageId">>
      [] fn = "deleteMessage" -> <<"messageId">>
      [] fn = "sendPhoto" -> <<"photo">>
      [] fn = "sendDocument" -> <<"document">>
      [] OTHER -> <<>>

NoArgs ==
    [chatId |-> Undefined, text |-> Undefined, messageId |-> Undefined,
     media |-> Undefined, additionalFields |-> EmptyObject]

NoCall ==
    [item |-> -1, authMethod |-> "", botToken |-> Undefined,
     resource |-> "", operation |-> "", fn |-> "none", calls |-> 0,
     args |-> NoArgs, reads |-> <<>>]

NoReply == [k |-> "none"]

\* sanitizeText is not being called on its own
NotSanitizing ==
    [pc |-> "idle", text |-> Undefined, once |-> EmptyString,
     twice |-> EmptyString]

\* the operation function fn applied to the arguments a
Invoke(fn, a, botToken) ==
    CASE fn = "sendMessage" ->
           SendMessage(a.chatId, a.text, botToken, a.additionalFields)
      [] fn = "editMessage" ->
           EditMessage(a.chatId, a.messageId, a.text, botToken,
                       a.additionalFields)
      [] fn = "deleteMessage" -> DeleteMessage(a.chatId, a.messageId, botToken)
      [] fn = "sendPhoto" ->
           SendPhoto(a.chatId, a.media, botToken, a.additionalFields)
      [] fn = "sendDocument" ->
           SendDocument(a.chatId, a.media, botToken, a.additionalFields)
      [] fn = "getChat" -> GetChat(a.chatId, botToken)
      [] fn = "getChatAdministrators" ->
           GetChatAdministrators(a.chatId, botToken)

\* returnData.push({json: responseData, pairedItem: {item: i}}) and i++
PushSuccess(responseData) ==
    /\ returnData' = Append(returnData,
                            [json |-> responseData, pairedItem |-> [item |-> i]])
    /\ trace' = Append(trace, [item |-> i, outcome |-> "success",
                               kind |-> "none", error |-> Undefined])
    /\ i' = i + 1
    /\ pc' = "loop"
    /\ UNCHANGED thrown

\* Catch with the error record left out of returnData
CatchDroppingRecord(error) ==
    /\ trace' = Append(trace, [item |-> i, outcome |-> "error",
                               kind |-> error.kind, error |-> error])
    /\ IF continueOnFail
       THEN /\ i' = i + 1
            /\ pc' = "loop"
            /\ UNCHANGED <<returnData, thrown>>
       ELSE /\ thrown' = error
            /\ pc' = "thrown"
            /\ UNCHANGED <<returnData, i>>

\* Catch that never rethrows
CatchSwallowing(error) ==
    /\ trace' = Append(trace, [item |-> i, outcome |-> "error",
                               kind |-> error.kind, error |-> error])
    /\ returnData' = Append(returnData,
                            [json |-> [error |-> error.message],
                             pairedItem |-> [item |-> i]])
    /\ i' = i + 1
    /\ pc' = "loop"
    /\ UNCHANGED thrown

\* Catch that leaves i alone, so that the loop takes the failed item again
CatchRetrying(error) ==
    /\ trace' = Append(trace, [item |-> i, outcome |-> "error",
                               kind |-> error.kind, error |-> error])
    /\ IF continueOnFail
       THEN /\ pc' = "loop"
            /\ UNCHANGED <<returnData, thrown, i>>
       ELSE /\ thrown' = error
            /\ pc' = "thrown"
            /\ UNCHANGED <<returnData, i>>

\* the catch block of the loop body
Catch(error) ==
    /\ trace' = Append(trace, [item |-> i, outcome |-> "error",
                               kind |-> error.kind, error |-> error])
    /\ IF continueOnFail
       THEN /\ returnData' = Append(returnData,
                                    [json |-> [error |-> error.message],
                                     pairedItem |-> [item |-> i]])
            /\ i' = i + 1
            /\ pc' = "loop"
            /\ UNCHANGED thrown
       ELSE /\ thrown' = error
            /\ pc' = "thrown"
            /\ UNCHANGED <<returnData, i>>

\* the call of the routed function, up to its end or to its await
CallFunction(ctx) ==
    LET r == Invoke(ctx.fn, ctx.args, ctx.botToken)
    IN  IF r.k = "throw"
        THEN /\ Catch(r.error)
             /\ call' = ctx
             /\ UNCHANGED <<request, transportLog>>
        ELSE /\ request' = r.options
             /\ transportLog' = Append(transportLog, i)
             /\ call' = [ctx EXCEPT !.calls = 1]
             /\ pc' = "awaiting"
             /\ UNCHANGED <<i, returnData, thrown, trace>>

\* the head of a pass of the loop body: the authentication method, the
\* token and its checks; U holds the values the host may hand out for the
\* item's parameters
ResolveAuth(U) ==
    /\ pc = "loop"
    /\ i < nItems
    /\ lastReply' = NoReply
    /\ UNCHANGED <<nItems, continueOnFail, request, transportLog, sanitizer>>
    /\ \E authMethod \in U.authMethods, source \in U.tokens :
         LET auth == ResolveToken(authMethod, source)
             ctx0 == [NoCall EXCEPT !.item = i, !.authMethod = authMethod,
                                    !.reads = TokenReads(authMethod)]
         IN  IF auth.k = "throw"
             THEN /\ Catch(auth.error)
                  /\ call' = ctx0
             ELSE
             LET checked == CheckBotToken(auth.value)
                 ctx1 == [ctx0 EXCEPT !.botToken = auth.value]
             IN  IF checked.k = "throw"
                 THEN /\ Catch(checked.error)
                      /\ call' = ctx1
                 ELSE /\ call' = ctx1
                      /\ pc' = "dispatch"
                      /\ UNCHANGED <<i, returnData, thrown, trace>>

\* the rest of the pass: the parameters, the routed call, up to the end of
\* the pass or to the await of this.helpers.request
Dispatch(U) ==
    /\ pc = "dispatch"
    /\ UNCHANGED <<nItems, continueOnFail, lastReply, sanitizer>>
    /\ \E resource \in U.resources, operation \in U.operations :
         LET fn == Route(resource, operation)
             ctx2 == [call EXCEPT
                        !.resource = resource,
                        !.operation = operation,
                        !.fn = fn,
                        !.reads = @ \o <<"resource", "operation",
                                         "chatId", "additionalFields">>
                                    \o RouteReads(fn)]
         IN  \E chatId \in U.chatIds,
                additionalFields \in U.additionalFields,
                text \in (IF "text" \in Range(RouteReads(fn))
                          THEN U.texts ELSE {Undefined}),
                messageId \in (IF "messageId" \in Range(RouteReads(fn))
                               THEN U.messageIds ELSE {Undefined}),
                media \in (IF fn \in {"sendPhoto", "sendDocument"}
                           THEN U.media ELSE {Undefined}) :
               LET ctx3 == [ctx2 EXCEPT !.args =
                              [chatId |-> chatId, text |-> text,
                               messageId |-> messageId,
                               media |-> media,
                               additionalFields |-> additionalFields]]
               IN  IF fn = "none"
                   THEN /\ PushSuccess(Obj(EmptyObject))
                        /\ call' = ctx3
                        /\ UNCHANGED <<request, transportLog>>
                   ELSE CallFunction(ctx3)

\* this.helpers.request ends, and the pass with it
TransportReplies(U) ==
    /\ pc = "awaiting"
    /\ UNCHANGED <<nItems, continueOnFail, call, transportLog, sanitizer>>
    /\ request' = Undefined
    /\ \E answer \in U.replies :
         LET r == TelegramApiRequestEnd(answer)
         IN  /\ lastReply' = answer
             /\ IF r.k = "throw" THEN Catch(r.error)
                ELSE PushSuccess(r.value)

\* the loop ends: return [returnData]
ReturnData ==
    /\ pc = "loop"
    /\ i >= nItems
    /\ pc' = "done"
    /\ UNCHANGED <<nItems, continueOnFail, i, returnData, thrown, call,
                   request, transportLog, lastReply, trace, sanitizer>>

(***************************************************************************)
(* The values the host and the transport hand to the node.                 *)
(***************************************************************************)
\* 8 digits, ':' and 30 secret characters; 10 digits, ':' and 45
ShortestToken == Str(Rep("1", 8) \o Lit(<<":">>) \o Rep("a", 30))
LongestToken ==
    Str(Rep("9", 10) \o Lit(<<":", "A", "_", "-", "z", "0">>) \o Rep("Z", 40))

BadTokens ==
    {Undefined, Null, Str(EmptyString), Num(12345678),
     Str(Rep("1", 7) \o Lit(<<":">>) \o Rep("a", 30)),
     Str(Rep("1", 11) \o Lit(<<":">>) \o Rep("a", 30)),
     Str(Rep("1", 8) \o Lit(<<":">>) \o Rep("a", 29)),
     Str(Rep("1", 8) \o Lit(<<":">>) \o Rep("a", 46)),
     Str(Rep("1", 8) \o Lit(<<":">>) \o Rep("a", 29) \o Lit(<<"!">>)),
     Str(Rep("1", 8) \o Lit(<<":">>) \o Rep("a", 30) \o Lit(<<"\n">>)),
     Str(Rep("1", 8) \o Rep("a", 31))}

Resources == {"message", "photo", "document", "chat", "sticker"}
Operations == {"send", "edit", "delete", "get", "getAdministrators", "pin"}

ValidChannel == Str(Lit(<<"@", "v", "a", "l", "i", "d", "c", "h", "a", "n",
                          "n", "e", "l">>))
NotAChat == Str(Lit(<<"n", "o", "t", " ", "a", " ", "c", "h", "a", "t">>))

ChatIds ==
    {ValidChannel,
     Str(Lit(<<"@", "N", "e", "w", "s", "_", "1">>)),
     Str(Lit(<<"@", "a", "b", "c", "d", "e">>)),
     Str(Lit(<<"@", "a">>) \o Rep("_", 31)),
     Str(Lit(<<"-", "1", "0", "0", "9", "8", "7", "6">>)),
     Str(Lit(<<"0">>)),
     Num(-1001), Num(0), Frac(3, 2),
     Str(EmptyString), NotAChat,
     Str(Lit(<<"@", "a", "b", "c", "d">>)),
     Str(Lit(<<"@", "a">>) \o Rep("_", 32)),
     Str(Lit(<<"@", "1", "a", "b", "c", "d", "e">>)),
     Str(Lit(<<"1", "2", "\n">>))}

Hello == Str(Lit(<<"H", "e", "l", "l", "o">>))
Markup ==
    Str(Lit(<<" ", "<", "b", ">", "H", "i", " ", "&", " ", "'", "b", "y",
              "e", "'", "<", "/", "b", ">", "\n">>))

Texts ==
    {Num(5), Str(EmptyString), Str(Rep(" ", 3)), Hello, Markup,
     Str(Rep("a", 4096)), Str(Rep("a", 4097)),
     Str(Rep(" ", 2) \o Rep("a", 4096) \o Lit(<<"\n">>)),
     Str(Rep("&", 819)), Str(Rep("&", 820)),
     Str(Rep("a", 4091) \o Lit(<<"&">>))}

MessageIds ==
    {Num(123), Num(0), NaN, Undefined,
     Str(Lit(<<"1", "2", "3">>))}

FileRef == Str(Lit(<<"f", "i", "l", "e", "_", "i", "d">>))
Media == {FileRef, Num(7), Str(EmptyString), Undefined}

Captions ==
    {Hello, Str(Rep(" ", 2)), Num(5),
     Str(Rep("a", 1024)), Str(Rep("a", 1025)),
     Str(Lit(<<" ">>) \o Rep("a", 1024) \o Lit(<<" ">>)),
     Str(Rep("<", 256)), Str(Rep("<", 257))}

AdditionalFields ==
    {EmptyObject,
     [parse_mode |-> Str(Lit(<<"H", "T", "M", "L">>)),
      disable_notification |-> Bool(TRUE),
      reply_to_message_id |-> Num(0)],
     [chat_id |-> NotAChat, text |-> Str(Rep("a", 5000)),
      message_id |-> Str(Lit(<<"x">>)), photo |-> Str(EmptyString),
      document |-> Str(EmptyString)],
     [chat_id |-> ValidChannel, text |-> Hello, message_id |-> Num(123),
      photo |-> FileRef, document |-> FileRef]}
    \cup {[caption |-> c] : c \in Captions}

ChatNotFound ==
    Str(Lit(<<"c", "h", "a", "t", " ", "n", "o", "t", " ", "f", "o", "u",
              "n", "d">>))

\* an error this.helpers.request raises
TransportError(class, code, text) ==
    [class |-> class, kind |-> "raw",
     message |-> [text |-> text, arg |-> Undefined], description |-> NoText,
     code |-> code]

Replies ==
    {[k |-> "response",
      value |-> Obj([ok |-> Bool(TRUE),
                     result |-> Obj([message_id |-> Num(1)])])],
     [k |-> "response",
      value |-> Obj([ok |-> Bool(FALSE), error_code |-> Num(400),
                     description |-> ChatNotFound])],
     [k |-> "response",
      value |-> Obj([ok |-> Bool(FALSE), error_code |-> Num(403)])],
     [k |-> "response", value |-> Undefined],
     [k |-> "raise",
      error |-> TransportError("Error", "ECONNREFUSED",
                               "connect ECONNREFUSED")],
     [k |-> "raise",
      error |-> TransportError("Error", "ETIMEDOUT", "ETIMEDOUT")],
     [k |-> "raise",
      error |-> TransportError("StatusCodeError", "none",
                               "400 - Bad Request")],
     [k |-> "raise", error |-> TransportError("Error", "none", "")]}

\* every value above: execute over one item
Wide ==
    [authMethods |-> KnownAuthMethods \cup {"oauth2"},
     tokens |-> {ShortestToken, LongestToken} \cup BadTokens,
     resources |-> Resources,
     operations |-> Operations,
     chatIds |-> ChatIds,
     texts |-> Texts,
     messageIds |-> MessageIds,
     media |-> Media,
     additionalFields |-> AdditionalFields,
     replies |-> Replies]

\* a few of each, for batches of several items
Narrow ==
    [authMethods |-> {"direct", "oauth2"},
     tokens |-> {ShortestToken, Str(EmptyString)},
     resources |-> {"message", "photo", "chat"},
     operations |-> {"send", "delete", "get"},
     chatIds |-> {ValidChannel, NotAChat},
     texts |-> {Hello, Str(Rep("a", 4097))},
     messageIds |-> {Num(123), Num(0)},
     media |-> {FileRef, Str(EmptyString)},
     additionalFields |-> {EmptyObject},
     replies |-> {r \in Replies :
                    \/ r.k = "response" /\ r.value # Undefined
                    \/ r.k = "raise" /\ r.error.code = "ECONNREFUSED"}]

Init ==
    /\ nItems \in 0..MaxItems
    /\ continueOnFail \in BOOLEAN
    /\ i = 0
    /\ pc = "loop"
    /\ returnData = <<>>
    /\ thrown = Undefined
    /\ call = NoCall
    /\ request = Undefined
    /\ transportLog = <<>>
    /\ lastReply = NoReply
    /\ trace = <<>>
    /\ sanitizer = NotSanitizing

\* execute over a batch of up to MaxItems items
Next ==
    \/ ResolveAuth(Narrow)
    \/ Dispatch(Narrow)
    \/ TransportReplies(Narrow)
    \/ ReturnData

Spec == Init /\ [][Next]_vars

\* execute over one item, with every value the model has for its parameters
InitItem ==
    /\ Init
    /\ nItems = 1

NextItem ==
    \/ ResolveAuth(Wide)
    \/ Dispatch(Wide)
    \/ TransportReplies(Wide)
    \/ ReturnData

SpecItem == InitItem /\ [][NextItem]_vars

(***************************************************************************)
(* sanitizeText on its own: called on a value, then on its own result.     *)
(***************************************************************************)
\* the five characters sanitizeText escapes
SpecialChars == {"&", "<", ">", "\"", "'"}

\* the characters of the strings tried: the five, white space, and
\* characters an entity is made of
SanitizerAlphabet == SpecialChars \cup {" ", "\n", "a", ";"}

\* every tuple of at most k characters
CharsUpTo(k) == UNION {[1..m -> SanitizerAlphabet] : m \in 0..k}

\* the arguments tried: every short string, texts of repeated runs, and
\* values that are no strings
SanitizerInputs ==
    {Str(Lit(chars)) : chars \in CharsUpTo(MaxChars)}
      \cup {Str(Rep(" ", 2) \o Rep("&", 40) \o Rep("\n", 2)),
            Str(Rep(" ", 50)), Markup}
      \cup {Undefined, Null, Num(5), Num(0), NaN, Bool(TRUE), Bool(FALSE),
            Obj(EmptyObject)}

\* sanitizeText(text)
Sanitize ==
    /\ sanitizer.pc = "called"
    /\ sanitizer' = [sanitizer EXCEPT !.pc = "returned",
                                      !.once = SanitizeText(sanitizer.text)]
    /\ UNCHANGED <<nItems, continueOnFail, i, pc, returnData, thrown, call,
                   request, transportLog, lastReply, trace>>

\* sanitizeText(sanitizeText(text))
SanitizeAgain ==
    /\ sanitizer.pc = "returned"
    /\ sanitizer' = [sanitizer EXCEPT
                       !.pc = "returned twice",
                       !.twice = SanitizeText(Str(sanitizer.once))]
    /\ UNCHANGED <<nItems, continueOnFail, i, pc, returnData, thrown, call,
                   request, transportLog, lastReply, trace>>

InitSanitizer ==
    /\ nItems = 0
    /\ continueOnFail = FALSE
    /\ i = 0
    /\ pc = "loop"
    /\ returnData = <<>>
    /\ thrown = Undefined
    /\ call = NoCall
    /\ request = Undefined
    /\ transportLog = <<>>
    /\ lastReply = NoReply
    /\ trace = <<>>
    /\ \E text \in SanitizerInputs :
         sanitizer = [NotSanitizing EXCEPT !.pc = "called", !.text = text]

NextSanitizer == Sanitize \/ SanitizeAgain

SpecSanitizer == InitSanitizer /\ [][NextSanitizer]_vars
(***************************************************************************)
(* The claims.                                                             *)
(***************************************************************************)
IsErrorRecord(r) == DOMAIN r.json = {"error"}

Prefix(s, t) ==
    Len(s) <= Len(t) /\ \A k \in 1..Len(s) : t[k] = s[k]

\* C1: with continue-on-failure enabled, the outputs are one per item
\* processed, the k-th output is paired with item k-1 and is an error record
\* exactly when that item failed, execute returns nItems of them, and no
\* step removes or changes an output already produced.
C1_OneOutputPerItem ==
    /\ [](continueOnFail =>
            /\ pc # "thrown"
            /\ Len(returnData) = Len(trace)
            /\ pc = "done" => Len(returnData) = nItems
            /\ \A k \in 1..Len(returnData) :
                 /\ returnData[k].pairedItem.item = k - 1
                 /\ trace[k].item = k - 1
                 /\ IsErrorRecord(returnData[k])
                      <=> trace[k].outcome = "error")
    /\ [][continueOnFail => Prefix(returnData, returnData')]_vars

\* a batch of three whose second item failed and whose others succeeded
C1_Witness ==
    /\ continueOnFail
    /\ pc = "done"
    /\ nItems = 3
    /\ trace[1].outcome = "success"
    /\ trace[2].outcome = "error"
    /\ trace[3].outcome = "success"
    /\ Len(returnData) = 3

\* C2: with continue-on-failure disabled, the first failing item k ends
\* execute with that item's error: the outputs are those of the items before
\* k, no later item is read or called, no transport call is made after it,
\* and nothing happens once the error has left execute.
C2_FirstFailureAborts ==
    /\ [](~continueOnFail =>
            /\ \A k \in 1..Len(trace) :
                 trace[k].outcome = "error" =>
                   /\ k = Len(trace)
                   /\ pc = "thrown"
                   /\ thrown.kind = trace[k].kind
                   /\ i = k - 1
                   /\ Len(returnData) = k - 1
            /\ pc = "thrown" =>
                 /\ trace[Len(trace)].outcome = "error"
                 /\ call.item = i
                 /\ \A k \in 1..Len(transportLog) : transportLog[k] <= i)
    /\ [][pc # "thrown"]_vars

\* the second of three items failed in its transport call and execute threw
C2_Witness ==
    /\ ~continueOnFail
    /\ pc = "thrown"
    /\ nItems = 3
    /\ i = 1
    /\ Len(returnData) = 1
    /\ transportLog = <<0, 1>>
\* the error kinds raised by validation
ValidationKinds ==
    {"MissingToken", "InvalidTokenFormat", "InvalidChatId", "EmptyText",
     "TextTooLong", "InvalidMessageId", "MissingMedia", "CaptionTooLong",
     "UnknownAuthMethod"}

OperationFunctions ==
    {"sendMessage", "editMessage", "deleteMessage", "sendPhoto",
     "sendDocument", "getChat", "getChatAdministrators"}

\* the latest item's pass has ended, and ended with an error of this kind
\* raised before any transport call
FailedEarlyWith(kind) ==
    /\ call.calls = 0
    /\ Len(trace) = call.item + 1
    /\ trace[call.item + 1].outcome = "error"
    /\ trace[call.item + 1].kind = kind

\* C3: an item that ended with a validation error caused no transport call,
\* and no reply of the transport ends an item with a validation error.
C3_ValidationBeforeTransport ==
    \A k \in 1..Len(trace) :
        trace[k].kind \in ValidationKinds =>
          /\ \A j \in 1..Len(transportLog) : transportLog[j] # trace[k].item
          /\ call.item = trace[k].item => call.calls = 0 /\ lastReply = NoReply

\* sendDocument refused a caption that is too long, with no transport call
C3_Witness ==
    /\ call.fn = "sendDocument"
    /\ FailedEarlyWith("CaptionTooLong")
    /\ transportLog = <<>>
    /\ request = Undefined

\* C4: a request in flight carries a token that passes validation; under
\* each of the three authentication methods an empty or absent token ends
\* the item with MissingToken and any other token failing validation ends it
\* with InvalidTokenFormat, before resource, operation or chatId is read and
\* with no transport call.
C4_TokenGate ==
    /\ request # Undefined => ValidateBotToken(request.url.token)
    /\ (call.item >= 0 /\ call.authMethod \in KnownAuthMethods
          /\ ~ValidateBotToken(call.botToken)) =>
         /\ FailedEarlyWith(IF Truthy(call.botToken) THEN "InvalidTokenFormat"
                            ELSE "MissingToken")
         /\ Range(call.reads) \cap {"resource", "operation", "chatId"} = {}
         /\ \A j \in 1..Len(transportLog) : transportLog[j] # call.item

\* a token with a secret one character too long, read from the credentials
C4_Witness ==
    /\ call.authMethod = "credentials"
    /\ call.botToken = Str(Rep("1", 8) \o Lit(<<":">>) \o Rep("a", 46))
    /\ FailedEarlyWith("InvalidTokenFormat")
    /\ call.reads = <<"authMethod", "getCredentials">>

\* the values the node's parameter lists offer
DeclaredResources == {"message", "photo", "document", "chat"}
DeclaredOperations == {"send", "edit", "delete", "get", "getAdministrators"}

\* C5: for an item whose token passed validation, whatever resource and
\* operation it carries, exactly one operation function is called, and a
\* success record is emitted only after that function's transport call
\* returned.
C5_ExactlyOneFunction ==
    (call.item >= 0 /\ ValidateBotToken(call.botToken)
       /\ call.resource \in DeclaredResources
       /\ call.operation \in DeclaredOperations) =>
      /\ call.fn \in OperationFunctions
      /\ (Len(trace) = call.item + 1
            /\ trace[call.item + 1].outcome = "success") =>
           call.calls = 1 /\ lastReply # NoReply
\* C6: in sendMessage, editMessage, sendPhoto and sendDocument the body
\* handed to the transport has the chat_id, text, message_id, photo and
\* document the function computed from its arguments, whatever the
\* additional fields hold.
C6_CoreFieldsNotOverridden ==
    (pc = "awaiting"
       /\ call.fn \in {"sendMessage", "editMessage", "sendPhoto",
                       "sendDocument"}) =>
      /\ Get(request.body, "chat_id") = call.args.chatId
      /\ call.fn \in {"sendMessage", "editMessage"} =>
           Get(request.body, "text") = Str(SanitizeText(call.args.text))
      /\ call.fn = "editMessage" =>
           Get(request.body, "message_id") = call.args.messageId
      /\ call.fn = "sendPhoto" =>
           Get(request.body, "photo") = call.args.media
      /\ call.fn = "sendDocument" =>
           Get(request.body, "document") = call.args.media

\* a message id that editMessage and deleteMessage accept
UsableMessageId(messageId) ==
    Truthy(messageId) /\ TypeOf(messageId) = "number"

\* C7: sendMessage and editMessage with a valid chat identifier (and, for
\* editMessage, message id) fail with EmptyText exactly when the sanitized
\* text is empty, fail with TextTooLong exactly when the sanitized text has
\* more than 4096 characters, and otherwise reach the transport.
C7_TextLimitAfterSanitizing ==
    (call.fn \in {"sendMessage", "editMessage"}
       /\ ValidateChatId(call.args.chatId)
       /\ (call.fn = "editMessage" => UsableMessageId(call.args.messageId))) =>
      LET length == StrLen(SanitizeText(call.args.text))
      IN  /\ FailedEarlyWith("EmptyText") <=> length = 0
          /\ FailedEarlyWith("TextTooLong") <=> length > MaxTextLength
          /\ call.calls = 1 <=> (length >= 1 /\ length <= MaxTextLength)
          /\ call.calls = 1 => transportLog[Len(transportLog)] = call.item

\* a text of 4099 characters whose sanitized form has exactly 4096 is sent
C7_Witness ==
    /\ call.fn = "editMessage"
    /\ pc = "awaiting"
    /\ call.args.text.t = "string"
    /\ StrLen(call.args.text.s) = 4099
    /\ StrLen(SanitizeText(call.args.text)) = 4096
    /\ call.args.additionalFields = EmptyObject
    /\ StrLen(request.body.text.s) = 4096

\* the caption of the additional fields, when they hold one: a non-empty
\* string under the key caption
HasCaption(additionalFields) ==
    /\ Truthy(Get(additionalFields, "caption"))
    /\ TypeOf(Get(additionalFields, "caption")) = "string"

\* C8: sendPhoto and sendDocument with a valid chat identifier and a
\* non-empty media reference fail with CaptionTooLong exactly when the
\* additional fields hold a caption whose sanitized form has more than 1024
\* characters; otherwise they reach the transport, and the caption of the
\* body is then the sanitized caption, of at most 1024 characters.
C8_CaptionLimitAfterSanitizing ==
    (call.fn \in {"sendPhoto", "sendDocument"}
       /\ ValidateChatId(call.args.chatId)
       /\ Truthy(call.args.media)) =>
      LET present == HasCaption(call.args.additionalFields)
          caption == SanitizeText(call.args.additionalFields.caption)
      IN  /\ FailedEarlyWith("CaptionTooLong")
               <=> (present /\ StrLen(caption) > MaxCaptionLength)
          /\ call.calls = 1
               <=> ~(present /\ StrLen(caption) > MaxCaptionLength)
          /\ (pc = "awaiting" /\ present) =>
               /\ request.body.caption = Str(caption)
               /\ StrLen(request.body.caption.s) <= MaxCaptionLength

\* a caption of 256 '<', 1024 characters once sanitized, is sent
C8_Witness ==
    /\ call.fn = "sendPhoto"
    /\ pc = "awaiting"
    /\ call.args.additionalFields = [caption |-> Str(Rep("<", 256))]
    /\ StrLen(request.body.caption.s) = 1024
\* the chat identifiers the claim calls valid: an integer, an optionally
\* negative string of digits, or '@', a letter and 4 to 31 letters, digits
\* or underscores
ClaimedValidChatId(v) ==
    \/ v.t = "number" /\ v.d = 1
    \/ /\ v.t = "string"
       /\ LET chars == Flatten(v.s)
              digits == IF chars # <<>> /\ chars[1] = "-" THEN Tail(chars)
                        ELSE chars
          IN  \/ /\ digits # <<>>
                 /\ \A k \in 1..Len(digits) : digits[k] \in Digits
              \/ /\ Len(chars) \in 6..33
                 /\ chars[1] = "@"
                 /\ chars[2] \in Letters
                 /\ \A k \in 3..Len(chars) :
                      chars[k] \in Letters \cup Digits \cup {"_"}

\* C9: chat-identifier validation accepts every integer, every integer-like
\* string and every @username of the stated shape, rejects everything else,
\* and a rejected identifier ends the call with InvalidChatId before any
\* transport call.
C9_ChatIdValidation ==
    call.fn \in OperationFunctions =>
      /\ ValidateChatId(call.args.chatId)
           <=> ClaimedValidChatId(call.args.chatId)
      /\ FailedEarlyWith("InvalidChatId")
           <=> ~ClaimedValidChatId(call.args.chatId)

\* the latest reply of the transport is a response whose ok is false
RefusedByTelegram ==
    /\ lastReply.k = "response"
    /\ lastReply.value.t = "object"
    /\ Get(lastReply.value.o, "ok") = Bool(FALSE)

\* C10: when the transport returns a response whose ok is false, the item
\* ends with an ApiError whose message carries the response's description
\* and whose description carries its error code; execute emits an error
\* record or throws that error, and never a success record for the item.
C10_NotOkIsApiError ==
    RefusedByTelegram =>
      LET response == lastReply.value.o
          end == trace[call.item + 1]
      IN  /\ Len(trace) = call.item + 1
          /\ end.outcome = "error"
          /\ end.kind = "ApiError"
          /\ end.error.class = "NodeApiError"
          /\ end.error.description
               = [text |-> "Error Code: ", arg |-> Get(response, "error_code")]
          /\ Truthy(Get(response, "description")) =>
               end.error.message
                 = [text |-> "Telegram API Error: ", arg |-> response.description]
          /\ \A k \in 1..Len(returnData) :
               returnData[k].pairedItem.item = call.item =>
                 /\ IsErrorRecord(returnData[k])
                 /\ returnData[k].json.error = end.error.message
          /\ IF continueOnFail
             THEN Len(returnData) = call.item + 1 /\ pc # "thrown"
             ELSE thrown = end.error /\ pc = "thrown"

\* {ok: false, error_code: 400, description: "chat not found"} became an
\* error record whose message embeds "chat not found"
C10_Witness ==
    /\ RefusedByTelegram
    /\ continueOnFail
    /\ lastReply.value.o.error_code = Num(400)
    /\ Len(returnData) = 1
    /\ returnData[1].json.error
         = [text |-> "Telegram API Error: ", arg |-> ChatNotFound]
\* C11: a failure raised by the transport leaves telegramApiRequest as one
\* NodeOperationError: ConnectionRefused for ECONNREFUSED, Timeout for
\* ETIMEDOUT, RequestFailed carrying the underlying message for any other;
\* the raw error never reaches execute, and the ApiError of an ok=false
\* response is never turned into RequestFailed.
C11_TransportFailuresTranslated ==
    /\ lastReply.k = "raise" =>
         LET raised == lastReply.error
             end == trace[call.item + 1]
         IN  /\ Len(trace) = call.item + 1
             /\ end.outcome = "error"
             /\ end.error.class = "NodeOperationError"
             /\ end.error # raised
             /\ end.kind = end.error.kind
             /\ end.kind = IF raised.code = "ECONNREFUSED"
                           THEN "ConnectionRefused"
                           ELSE IF raised.code = "ETIMEDOUT" THEN "Timeout"
                           ELSE "RequestFailed"
             /\ end.kind = "RequestFailed" =>
                  end.error.message
                    = [text |-> "Telegram API request failed: ",
                       arg |-> IF raised.message.text # ""
                               THEN raised.message ELSE raised]
             /\ ~continueOnFail => thrown = end.error
             /\ continueOnFail =>
                  returnData[Len(returnData)].json.error = end.error.message
    /\ RefusedByTelegram =>
         /\ trace[call.item + 1].kind = "ApiError"
         /\ trace[call.item + 1].error.class = "NodeApiError"

\* a failure that is neither a refused connection nor a timeout was thrown
\* out of execute as RequestFailed with the transport's message in it
C11_Witness ==
    /\ lastReply.k = "raise"
    /\ lastReply.error.class = "StatusCodeError"
    /\ pc = "thrown"
    /\ thrown.kind = "RequestFailed"
    /\ thrown.message.arg = lastReply.error.message
\* the transport calls whose record has neither an output nor an error yet
Outstanding ==
    {k \in 1..Len(transportLog) : transportLog[k] >= Len(trace)}

\* C12: over a batch the transport calls are issued in strictly increasing
\* record order, so at most once per record and never again after a
\* failure; at most one call is outstanding, and a call starts only when
\* every earlier record has its output or its error and no call is pending.
C12_SequentialCalls ==
    /\ [](/\ \A k \in 1..Len(transportLog) :
               /\ transportLog[k] \in 0..(nItems - 1)
               /\ k > 1 => transportLog[k - 1] < transportLog[k]
          /\ Cardinality(Outstanding) <= 1
          /\ Outstanding # {} <=> pc = "awaiting"
          /\ Outstanding # {} <=> request # Undefined)
    /\ [][transportLog' # transportLog =>
            /\ transportLog' = Append(transportLog, i)
            /\ Outstanding = {}
            /\ request = Undefined
            /\ Len(trace) = i
            /\ \A j \in 0..(i - 1) : trace[j + 1].item = j
            /\ continueOnFail => Len(returnData) = i]_vars

\* three records each had their one call, the second of them refused by
\* Telegram, and execute returned
C12_Witness ==
    /\ pc = "done"
    /\ transportLog = <<0, 1, 2>>
    /\ trace[2].kind = "ApiError"
    /\ trace[3].outcome = "success"
\* a chat identifier of none of the three accepted shapes: not a number,
\* not a string of digits with an optional sign, not an @username
OfNoAcceptedShape(v) == v.t # "number" /\ ~ClaimedValidChatId(v)

\* C13: in each of the seven operation functions the chat identifier is
\* checked first: a call with an invalid chat identifier ends with
\* InvalidChatId, before any transport call, whatever the text, message id,
\* media reference, caption and other additional fields are.
C13_ChatIdCheckedFirst ==
    /\ call.fn \in OperationFunctions
    /\ \/ ~ValidateChatId(call.args.chatId)
       \/ OfNoAcceptedShape(call.args.chatId)
    => FailedEarlyWith("InvalidChatId")

\* editMessage with a chat identifier that is no chat, no message id and an
\* empty text failed with InvalidChatId
C13_Witness ==
    /\ call.fn = "editMessage"
    /\ call.args.chatId = NotAChat
    /\ call.args.messageId = Undefined
    /\ call.args.text = Str(EmptyString)
    /\ FailedEarlyWith("InvalidChatId")
\* a message id that is absent or whose type is not number
AbsentOrNotANumber(m) == m \in {Undefined, Null} \/ m.t # "number"

\* the number 0, or NaN
ZeroOrNaN(m) == m.t = "number" /\ (m.d = 0 \/ m.n = 0)

\* editMessage or deleteMessage was called with a chat identifier it accepts
EditOrDeleteOfValidChat ==
    /\ call.fn \in {"editMessage", "deleteMessage"}
    /\ ValidateChatId(call.args.chatId)

\* after the message id check: deleteMessage calls the transport,
\* editMessage goes on to the checks of the text
PastMessageIdCheck ==
    \/ call.calls = 1
    \/ /\ call.fn = "editMessage"
       /\ FailedEarlyWith("EmptyText") \/ FailedEarlyWith("TextTooLong")

\* C14 (as stated): editMessage and deleteMessage with a valid chat
\* identifier fail with InvalidMessageId exactly when the message id is
\* absent or not a number, and go on for every message id that is a number.
C14_AsStated ==
    EditOrDeleteOfValidChat =>
      /\ FailedEarlyWith("InvalidMessageId")
           <=> AbsentOrNotANumber(call.args.messageId)
      /\ ~AbsentOrNotANumber(call.args.messageId) => PastMessageIdCheck

\* C14 (amended): editMessage and deleteMessage with a valid chat identifier
\* fail with InvalidMessageId exactly when the message id is absent, not a
\* number, 0 or NaN, and go on for every other number.
C14_MessageIdRequired ==
    EditOrDeleteOfValidChat =>
      LET refused == \/ AbsentOrNotANumber(call.args.messageId)
                     \/ ZeroOrNaN(call.args.messageId)
      IN  /\ FailedEarlyWith("InvalidMessageId") <=> refused
          /\ ~refused => PastMessageIdCheck

\* deleteMessage of message 0, the default of the messageId parameter, in a
\* valid chat failed with InvalidMessageId
C14_Witness ==
    /\ call.fn = "deleteMessage"
    /\ ValidateChatId(call.args.chatId)
    /\ call.args.messageId = Num(0)
    /\ FailedEarlyWith("InvalidMessageId")
\* C15: sanitizeText is not idempotent: for a string t, sanitizing the
\* sanitized t gives a different string exactly when t holds one of the
\* five special characters (every '&' of the entities is escaped again),
\* and the same string when t holds none.
C15_NotIdempotent ==
    sanitizer.pc = "returned twice" /\ TypeOf(sanitizer.text) = "string" =>
      LET t == Flatten(sanitizer.text.s)
          first == Flatten(sanitizer.once)
          second == Flatten(sanitizer.twice)
      IN  /\ second # first <=> \E k \in 1..Len(t) : t[k] \in SpecialChars
          /\ second = Flatten(ReplaceAll(sanitizer.once, "&", AmpEntity))

\* '<' became '&lt;' and then '&amp;lt;'
C15_Witness ==
    /\ sanitizer.pc = "returned twice"
    /\ sanitizer.text = Str(Lit(<<"<">>))
    /\ Flatten(sanitizer.once) = LtEntity
    /\ Flatten(sanitizer.twice) = AmpEntity \o <<"l", "t", ";">>

\* the five entities
Entities == {AmpEntity, LtEntity, GtEntity, QuotEntity, AposEntity}

\* a string value: runs of at least one character, at least once
IsString(s) ==
    /\ DOMAIN s = 1..Len(s)
    /\ \A k \in 1..Len(s) : s[k].n >= 1 /\ Len(s[k].seg) >= 1

\* C16: sanitizeText is total: for every argument it has a result, a
\* string; the result is the empty string for null and for every value that
\* is no string; for a string it has no white space at either end, none of
\* '<', '>', '"' and the single quote, and each of its '&' starts one of
\* the five entities.
C16_SanitizeTotal ==
    /\ sanitizer.pc = "called" => IsString(SanitizeText(sanitizer.text))
    /\ sanitizer.pc # "idle" => IsString(sanitizer.once)
    /\ sanitizer.pc \in {"returned", "returned twice"} =>
         LET out == Flatten(sanitizer.once)
         IN  IF TypeOf(sanitizer.text) # "string"
             THEN sanitizer.once = EmptyString
             ELSE /\ out # <<>> =>
                       /\ out[1] \notin WhiteSpace
                       /\ out[Len(out)] \notin WhiteSpace
                  /\ \A k \in 1..Len(out) :
                       /\ out[k] \notin SpecialChars \ {"&"}
                       /\ out[k] = "&" =>
                            \E e \in Entities :
                              /\ k + Len(e) - 1 <= Len(out)
                              /\ SubSeq(out, k, k + Len(e) - 1) = e

\* a single quote between a space and a line feed became '&#x27;'
C16_Witness ==
    /\ sanitizer.pc = "returned"
    /\ sanitizer.text = Str(Lit(<<" ", "'", "\n">>))
    /\ Flatten(sanitizer.once) = AposEntity
====
